---- MODULE Spec2Model ----
(***************************************************************************)
(* A model of backend/server.js: the in-memory session store, the          *)
(* generate / feedback / evaluate request handlers, the outbound fetches   *)
(* they suspend on, the prompt builder and the build-link encoder.         *)
(*                                                                         *)
(* Text is a sequence of units.  A unit is one character (" ", "\n", "-",  *)
(* ":", "%", ...), a run of letters that no operation here ever splits     *)
(* ("User", "a", ...), or "HS": one unpaired UTF-16 high surrogate.        *)
(* A JavaScript value that is a string or undefined is a record            *)
(* [t, s]: t = "string" with the text s, or t = "undefined".               *)
(***************************************************************************)
EXTENDS Integers, Sequences, FiniteSets, TLC

VARIABLES
  knowledgeBase,    \* the designGuidelines of knowledgeBase (server.js:11-17)
  sessions,         \* own properties of the object `sessions` (server.js:20)
  objectPrototype,  \* description / extractedContent set on Object.prototype
  inflight,         \* handlers suspended on a fetch, or rejected, by request number
  received,         \* number of requests whose handler has started
  nextUuid,         \* number of identifiers randomUUID() has minted, plus one
  crashed,          \* the process was terminated by an unhandled rejection
  last,             \* the step taken last: the request, what its handler held
                    \* (description, feedback, summary), and its response if any
  accepted,         \* per session id, the feedback values answered with 200
  genLog            \* per session id, the generate request received last

vars == <<knowledgeBase, sessions, objectPrototype, inflight, received,
          nextUuid, crashed, last, accepted, genLog>>

----------------------------------------------------------------------------
(* Bounds of the model *)

MaxRequests == 3
MaxUuid == 1
ChunkLen == 600000
MaxInFlight == 2
MaxFeedbackLen == 2
MaxTextLen == 2
MaxTags == 2

(* Program constants *)

MaxHtmlLen == 1000000
MaxSearchLen == 500000
H1Points == 30
H2Points == 20
ImgPoints == 20
ViewportPoints == 10
ScoreCap == 100

----------------------------------------------------------------------------
(* JavaScript values *)

Undefined == [t |-> "undefined", s |-> <<>>]
Str(s) == [t |-> "string", s |-> s]

\* Boolean(v): undefined and '' are falsy, every other string is truthy
Truthy(v) == v.t = "string" /\ v.s # <<>>

\* `${v}`: the text of v inside a template literal
ToStr(v) == IF v.t = "undefined" THEN <<"undefined">> ELSE v.s

Whitespace == {" ", "\n"}

RECURSIVE TrimStart(_)
TrimStart(s) ==
  IF s # <<>> /\ Head(s) \in Whitespace THEN TrimStart(Tail(s)) ELSE s

RECURSIVE TrimEnd(_)
TrimEnd(s) ==
  IF s # <<>> /\ s[Len(s)] \in Whitespace
  THEN TrimEnd(SubSeq(s, 1, Len(s) - 1))
  ELSE s

\* String.prototype.trim
Trim(s) == TrimEnd(TrimStart(s))

----------------------------------------------------------------------------
(* buildLovableUrl and encodeURIComponent *)

baseUrl == <<"https", ":", "/", "/", "lovable", ".", "dev", "/", "build">>

\* encodeURIComponent leaves letters and - _ . ! ~ * ' ( ) alone and writes
\* every other character as the %XX of its UTF-8 bytes
EscapeOf(u) ==
  CASE u = " "  -> <<"%", "2", "0">>
    [] u = "\n" -> <<"%", "0", "A">>
    [] u = ":"  -> <<"%", "3", "A">>
    [] u = "%"  -> <<"%", "2", "5">>
    [] u = "/"  -> <<"%", "2", "F">>
    [] u = "?"  -> <<"%", "3", "F">>
    [] u = "="  -> <<"%", "3", "D">>
    [] OTHER    -> <<u>>

\* an unpaired surrogate makes encodeURIComponent throw URIError
WellFormed(s) == \A i \in 1..Len(s) : s[i] # "HS"

RECURSIVE encodeURIComponent(_)
encodeURIComponent(s) ==
  IF s = <<>> THEN <<>> ELSE EscapeOf(Head(s)) \o encodeURIComponent(Tail(s))

UnescapeOf(a, b) ==
  CASE a = "2" /\ b = "0" -> " "
    [] a = "0" /\ b = "A" -> "\n"
    [] a = "3" /\ b = "A" -> ":"
    [] a = "2" /\ b = "5" -> "%"
    [] a = "2" /\ b = "F" -> "/"
    [] a = "3" /\ b = "F" -> "?"
    [] a = "3" /\ b = "D" -> "="
    [] OTHER -> "URIError"

RECURSIVE decodeURIComponent(_)
decodeURIComponent(s) ==
  IF s = <<>> THEN <<>>
  ELSE IF Head(s) = "%" /\ Len(s) >= 3
       THEN <<UnescapeOf(s[2], s[3])>> \o decodeURIComponent(SubSeq(s, 4, Len(s)))
       ELSE <<Head(s)>> \o decodeURIComponent(Tail(s))

\* server.js:27-31; [ok |-> FALSE] when encodeURIComponent throws
buildLovableUrl(prompt) ==
  IF WellFormed(prompt)
  THEN [ok |-> TRUE, url |-> baseUrl \o <<"?", "prompt", "=">> \o encodeURIComponent(prompt)]
  ELSE [ok |-> FALSE, url |-> <<>>]

\* what a client recovers from a build link: the decoded prompt parameter
PromptOfUrl(u) ==
  decodeURIComponent(SubSeq(u, Len(baseUrl) + 4, Len(u)))

----------------------------------------------------------------------------
(* createPrompt *)

UserDescriptionHdr == <<"User", " ", "description", ":", " ">>
ContentHdr == <<"\n", "Content", " ", "from", " ", "source", ":", " ">>
GuidelinesHdr == <<"\n", "Design", " ", "guidelines", ":", "\n">>
FeedbackHdr ==
  <<"\n", "Please", " ", "apply", " ", "these", " ", "updates", " ", "based",
    " ", "on", " ", "user", " ", "feedback", ":", "\n">>

\* `- ${line}\n`
BulletLine(v) == <<"-", " ">> \o ToStr(v) \o <<"\n">>

RECURSIVE BulletLines(_)
BulletLines(items) ==
  IF items = <<>> THEN <<>> ELSE BulletLine(Head(items)) \o BulletLines(Tail(items))

\* an array-valued property, or undefined
NoArray == [t |-> "undefined", a |-> <<>>]
Arr(a) == [t |-> "array", a |-> a]

\* server.js:119-136; kb is knowledgeBase.designGuidelines, feedback an array or undefined
createPrompt(description, extractedContent, kb, feedback) ==
  LET p1 == IF Truthy(description)
            THEN UserDescriptionHdr \o ToStr(description) \o <<"\n">> ELSE <<>>
      p2 == IF Truthy(extractedContent)
            THEN ContentHdr \o ToStr(extractedContent) \o <<"\n">> ELSE <<>>
      p3 == IF kb.t = "array" THEN GuidelinesHdr \o BulletLines(kb.a) ELSE <<>>
      p4 == IF feedback.t = "array" /\ Len(feedback.a) > 0
            THEN FeedbackHdr \o BulletLines(feedback.a) ELSE <<>>
  IN Trim(p1 \o p2 \o p3 \o p4)

----------------------------------------------------------------------------
(* The session store: `sessions` is a plain object, so sessions[id] also    *)
(* finds what the object inherits: sessions["__proto__"] is Object.prototype *)

NoSession ==
  [t |-> "undefined", description |-> Undefined, extractedContent |-> Undefined,
   feedback |-> NoArray]

\* the value of sessions[id] (server.js:293, 320, 326)
Lookup(ss, proto, id) ==
  IF id \in DOMAIN ss
  THEN [t |-> "object", description |-> ss[id].description,
        extractedContent |-> ss[id].extractedContent,
        feedback |-> Arr(ss[id].feedback)]
  ELSE IF id = "__proto__"
  THEN [t |-> "object", description |-> proto.description,
        extractedContent |-> proto.extractedContent, feedback |-> NoArray]
  ELSE NoSession

\* server.js:294
NewSession == [description |-> Str(<<>>), extractedContent |-> Str(<<>>), feedback |-> <<>>]

\* a handler that starts every generate call from a fresh session
EnsureSessionAlways(ss, proto, id) ==
  [k \in DOMAIN ss \cup {id} |-> IF k = id THEN NewSession ELSE ss[k]]

\* server.js:293-295: sessions after `if (!sessions[id]) sessions[id] = {...}`
EnsureSession(ss, proto, id) ==
  IF Lookup(ss, proto, id).t = "undefined"
  THEN [k \in DOMAIN ss \cup {id} |-> IF k = id THEN NewSession ELSE ss[k]]
  ELSE ss

\* a store that takes the description and leaves the extracted content
StoreDescriptionOnly(ss, id, description, combined) ==
  IF id \in DOMAIN ss
  THEN [ss EXCEPT ![id].description = description]
  ELSE ss

\* a store that replaces the session object by a fresh one
StoreFreshSession(ss, id, description, combined) ==
  IF id \in DOMAIN ss
  THEN [ss EXCEPT ![id] = [description |-> description,
                           extractedContent |-> combined, feedback |-> <<>>]]
  ELSE ss

\* server.js:304-305: the store after the two assignments through sessions[id]
StoreSessions(ss, id, description, combined) ==
  IF id \in DOMAIN ss
  THEN [ss EXCEPT ![id].description = description, ![id].extractedContent = combined]
  ELSE ss

StorePrototype(ss, proto, id, description, combined) ==
  IF id \notin DOMAIN ss /\ id = "__proto__"
  THEN [description |-> description, extractedContent |-> combined]
  ELSE proto

\* a push that skips the empty string
PushUnlessEmpty(list, item) == IF Truthy(item) THEN Append(list, item) ELSE list

\* unshift in place of push
PushFront(list, item) == <<item>> \o list

\* Array.prototype.push (server.js:325)
Push(list, item) == Append(list, item)

\* body.description of a parsed JSON object: its own property, else the one
\* Object.prototype has (server.js:291)
BodyDescription(body, proto) ==
  IF body.description.t = "undefined" THEN proto.description ELSE body.description

\* [a, b].filter(Boolean).join('\n\n') (server.js:303)
JoinNonEmpty(a, b) ==
  IF Truthy(a) /\ Truthy(b) THEN Str(a.s \o <<"\n", "\n">> \o b.s)
  ELSE IF Truthy(a) THEN a
  ELSE IF Truthy(b) THEN b
  ELSE Str(<<>>)

----------------------------------------------------------------------------
(* Requests and what they carry *)

UuidNames == <<"u1", "u2", "u3", "u4">>

\* the identifiers randomUUID() has returned so far
Minted == {UuidNames[i] : i \in 1..(nextUuid - 1)}

\* sessionId of a request body; "" stands for an absent (or empty) one: both are falsy
ClientIds == {"s1", "__proto__"}
SessionIdInputs == {""} \cup ClientIds \cup Minted

Descriptions == {Undefined, Str(<<"a">>)}
Feedbacks == {Str(<<>>), Str(<<"x">>), Str(<<"HS">>)}

\* the url of a request body: absent, a string new URL() rejects, a page address
NoUrl == [t |-> "undefined", valid |-> FALSE, protocol |-> "", hostname |-> "", pathname |-> ""]
BadUrl == [t |-> "string", valid |-> FALSE, protocol |-> "", hostname |-> "", pathname |-> ""]
GoodUrl ==
  [t |-> "string", valid |-> TRUE, protocol |-> "https:", hostname |-> "example.com",
   pathname |-> "/page"]
Urls == {NoUrl, BadUrl, GoodUrl}

UrlGiven(u) == u.t = "string"

\* server.js:60-69, 153-161: the options of the GET request.  A URL object has
\* no property `path`, so options.path is undefined and the request goes to "/"
RequestOptions(u) == [hostname |-> u.hostname, path |-> "/"]

\* server.js:215-218
SearchOptions == [hostname |-> "duckduckgo.com", path |-> "/html/?q="]

\* what a fetched page holds: tag counts for the evaluator, and the texts the
\* extractor and the search scraper recover from it
Pages ==
  { [h1 |-> 1, h2 |-> 2, img |-> 1, viewport |-> TRUE, summary |-> <<"page">>,
     snippets |-> <<"similar">>] }

\* a score that is content with one subheading
ScoreOneSubheading(page) ==
  LET s == (IF page.h1 >= 1 THEN H1Points ELSE 0) + (IF page.h2 >= 1 THEN H2Points ELSE 0)
           + (IF page.img >= 1 THEN ImgPoints ELSE 0)
           + (IF page.viewport THEN ViewportPoints ELSE 0)
  IN IF s > ScoreCap THEN ScoreCap ELSE s

\* server.js:173-185
Score(page) ==
  LET s == (IF page.h1 >= 1 THEN H1Points ELSE 0) + (IF page.h2 >= 2 THEN H2Points ELSE 0)
           + (IF page.img >= 1 THEN ImgPoints ELSE 0)
           + (IF page.viewport THEN ViewportPoints ELSE 0)
  IN IF s > ScoreCap THEN ScoreCap ELSE s

Report(page) ==
  Trim((IF page.h1 >= 1 THEN <<>> ELSE <<"Add at least one main heading.", "\n">>)
    \o (IF page.h2 >= 2 THEN <<>> ELSE <<"Use subheadings to structure content.", "\n">>)
    \o (IF page.img >= 1 THEN <<>>
        ELSE <<"Include images to make the page visually engaging.", "\n">>)
    \o (IF page.viewport THEN <<>>
        ELSE <<"Ensure the page is mobile-friendly (missing viewport meta tag).", "\n">>))

\* the size past which a transfer is destroyed (server.js:75, 166, 227)
Cap(pc) == IF pc = "similar" THEN MaxSearchLen ELSE MaxHtmlLen

----------------------------------------------------------------------------
(* State *)

NoStep ==
  [op |-> "none", id |-> "", status |-> 0, buildUrl |-> <<>>,
   summary |-> <<>>, ownDescription |-> Undefined, score |-> 0, report |-> <<>>,
   error |-> FALSE, threw |-> FALSE, description |-> Undefined,
   feedback |-> Undefined]

KnowledgeBases == {NoArray, Arr(<<Str(<<"g">>)>>)}

Init ==
  /\ knowledgeBase \in KnowledgeBases
  /\ sessions = [k \in {} |-> NewSession]
  /\ objectPrototype = [description |-> Undefined, extractedContent |-> Undefined]
  /\ inflight = [k \in {} |-> 0]
  /\ received = 0
  /\ nextUuid = 1
  /\ crashed = FALSE
  /\ last = NoStep
  /\ accepted = [k \in {} |-> <<>>]
  /\ genLog = [k \in {} |-> 0]

Put(f, k, v) == [x \in DOMAIN f \cup {k} |-> IF x = k THEN v ELSE f[x]]
Remove(f, k) == [x \in DOMAIN f \ {k} |-> f[x]]

\* the handlers awaiting an event of their fetch
Awaiting == {r \in DOMAIN inflight : inflight[r].fetch \in {"connecting", "receiving"}}

\* the server takes a request: the process is alive
Serving ==
  ~crashed /\ received < MaxRequests /\ Cardinality(Awaiting) < MaxInFlight

----------------------------------------------------------------------------
(* Pieces the handlers share.  Each states the whole next state but          *)
(* received, nextUuid, accepted and knowledgeBase, which the action states.  *)

\* the handler awaits a fetch that went out on the network
Suspend(r, rec, ss, gl) ==
  /\ inflight' = Put(inflight, r, rec)
  /\ sessions' = ss
  /\ objectPrototype' = objectPrototype
  /\ crashed' = crashed
  /\ genLog' = gl
  /\ last' = [NoStep EXCEPT !.op = rec.kind, !.id = rec.id]

\* the async handler throws: its promise rejects and nothing handles it.  No
\* response is sent; the process exits (the default since Node 15) or goes on
\* (--unhandled-rejections=warn, and the default before)
RejectAfter(r, rec, ss, proto, gl, step) ==
  /\ inflight' = Put(inflight, r, [rec EXCEPT !.pc = "rejected", !.fetch = "none"])
  /\ sessions' = ss
  /\ objectPrototype' = proto
  /\ crashed' \in BOOLEAN
  /\ genLog' = gl
  /\ last' = [step EXCEPT !.op = rec.kind, !.id = rec.id, !.threw = TRUE]

Reject(r, rec, ss, proto, gl) == RejectAfter(r, rec, ss, proto, gl, NoStep)

\* a generate handler that starts its prompt without feedback
GenerateFeedbackNone(ss, proto, id) == Arr(<<>>)

\* server.js:309: the feedback the generate handler hands to createPrompt
GenerateFeedback(ss, proto, id) == Lookup(ss, proto, id).feedback

\* server.js:303-314: both fetches are in; store, build the prompt, answer
GenerateFinish(r, rec, ss, gl, extracted, snippets) ==
  LET combined == JoinNonEmpty(extracted, snippets)
      ss2 == StoreSessions(ss, rec.id, rec.description, combined)
      proto2 == StorePrototype(ss, objectPrototype, rec.id, rec.description, combined)
      prompt == createPrompt(rec.description, combined, knowledgeBase,
                             GenerateFeedback(ss2, proto2, rec.id))
      b == buildLovableUrl(prompt)
  IN IF b.ok
     THEN /\ inflight' = Remove(inflight, r)
          /\ sessions' = ss2
          /\ objectPrototype' = proto2
          /\ crashed' = crashed
          /\ genLog' = IF gl[rec.id].rid = r
                       THEN [gl EXCEPT ![rec.id].summary = combined] ELSE gl
          /\ last' = [NoStep EXCEPT !.op = "generate", !.id = rec.id,
                                    !.status = 200, !.buildUrl = b.url,
                                    !.summary = combined.s,
                                    !.ownDescription = rec.bodyDescription,
                                    !.description = rec.description]
     ELSE RejectAfter(r, rec, ss2, proto2, gl,
                      [NoStep EXCEPT !.summary = combined.s,
                                     !.description = rec.description])

\* server.js:301 and 210-249: an empty query resolves '' at once, and so does a
\* query encodeURIComponent throws on; otherwise a request goes out
SearchSimilar(r, rec, ss, gl, extracted) ==
  IF Truthy(rec.description) /\ WellFormed(ToStr(rec.description) \o <<" ", "website">>)
  THEN Suspend(r, [rec EXCEPT !.pc = "similar", !.extractedContent = extracted,
                              !.fetch = "connecting", !.len = 0,
                              !.target = SearchOptions], ss, gl)
  ELSE GenerateFinish(r, rec, ss, gl, extracted, Str(<<>>))

\* server.js:343-346: the evaluation is in; answer with it
EvaluateFinish(r, score, report) ==
  /\ inflight' = Remove(inflight, r)
  /\ last' = [NoStep EXCEPT !.op = "evaluate", !.status = 200,
                            !.score = score, !.report = report]
  /\ UNCHANGED <<sessions, objectPrototype, crashed, genLog>>

\* a fetch resolved with `result`: the handler of request r goes on from its await
Resume(r, extractResult, searchResult, score, report) ==
  LET rec == inflight[r]
  IN CASE rec.pc = "extract" -> SearchSimilar(r, rec, sessions, genLog, extractResult)
       [] rec.pc = "similar" ->
            GenerateFinish(r, rec, sessions, genLog, rec.extractedContent, searchResult)
       [] rec.pc = "evaluate" -> EvaluateFinish(r, score, report)

NewRequest(kind, id, description, bodyDescription, u) ==
  [kind |-> kind, pc |-> kind, id |-> id, description |-> description,
   bodyDescription |-> bodyDescription, extractedContent |-> Str(<<>>),
   fetch |-> "connecting", len |-> 0, target |-> RequestOptions(u)]

----------------------------------------------------------------------------
(* The request handlers (server.js:269-352).  A handler runs from the end of *)
(* its request body to its first fetch on the network, or to its response,   *)
(* without another handler running in between.                               *)

\* server.js:277-281
Options ==
  /\ Serving
  /\ received' = received + 1
  /\ last' = [NoStep EXCEPT !.op = "options", !.status = 204]
  /\ UNCHANGED <<knowledgeBase, sessions, objectPrototype, inflight, nextUuid, crashed,
                 accepted, genLog>>

\* server.js:283-287
GetKnowledgeBase ==
  /\ Serving
  /\ received' = received + 1
  /\ last' = [NoStep EXCEPT !.op = "knowledge-base", !.status = 200]
  /\ UNCHANGED <<knowledgeBase, sessions, objectPrototype, inflight, nextUuid, crashed,
                 accepted, genLog>>

\* server.js:349-351
NotFound ==
  /\ Serving
  /\ received' = received + 1
  /\ last' = [NoStep EXCEPT !.op = "not-found", !.status = 404,
                            !.error = TRUE]
  /\ UNCHANGED <<knowledgeBase, sessions, objectPrototype, inflight, nextUuid, crashed,
                 accepted, genLog>>

\* server.js:291, 319, 337: the body is the JSON text null; parseJson resolves
\* null and destructuring it throws TypeError
NullBody(kind) ==
  /\ Serving
  /\ received' = received + 1
  /\ Reject(received + 1, [NewRequest(kind, "", Undefined, Undefined, NoUrl) EXCEPT !.pc = "rejected"],
            sessions, objectPrototype, genLog)
  /\ UNCHANGED <<knowledgeBase, nextUuid, accepted>>

\* server.js:289-315
Generate(body) ==
  /\ Serving
  /\ body.sessionId = "" => nextUuid <= MaxUuid
  /\ LET r == received + 1
         description == BodyDescription(body, objectPrototype)
         id == IF body.sessionId # "" THEN body.sessionId ELSE UuidNames[nextUuid]
         ss == EnsureSession(sessions, objectPrototype, id)
         rec == NewRequest("generate", id, description, body.description, body.url)
         gl == Put(genLog, id, [rid |-> r, description |-> description,
                                summary |-> Str(<<>>)])
     IN /\ received' = r
        /\ nextUuid' = IF body.sessionId = "" THEN nextUuid + 1 ELSE nextUuid
        /\ IF UrlGiven(body.url) /\ body.url.valid
           THEN Suspend(r, [rec EXCEPT !.pc = "extract"], ss, gl)
           ELSE SearchSimilar(r, rec, ss, gl, Str(<<>>))
  /\ UNCHANGED <<knowledgeBase, accepted>>

\* the session as it was read before the push
FeedbackSessionStale(before, after, proto, id) == Lookup(before, proto, id)

\* server.js:326: the session the feedback handler builds its prompt from
FeedbackSession(before, after, proto, id) == Lookup(after, proto, id)

\* server.js:317-332
Feedback(body) ==
  /\ Serving
  /\ LET r == received + 1
         id == body.sessionId
         s == Lookup(sessions, objectPrototype, id)
         rec == NewRequest("feedback", id, Undefined, Undefined, NoUrl)
     IN /\ received' = r
        /\ IF id = "" \/ s.t = "undefined"
           THEN /\ last' = [NoStep EXCEPT !.op = "feedback", !.id = id,
                                          !.status = 400, !.error = TRUE]
                /\ UNCHANGED <<sessions, objectPrototype, inflight, crashed, genLog,
                               accepted>>
           ELSE IF s.feedback.t = "undefined"
           THEN \* sessions[id].feedback is undefined: .push throws TypeError
                /\ Reject(r, rec, sessions, objectPrototype, genLog)
                /\ UNCHANGED accepted
           ELSE LET ss2 == [sessions EXCEPT ![id].feedback = Push(@, body.feedback)]
                    cur == FeedbackSession(sessions, ss2, objectPrototype, id)
                    prompt == createPrompt(cur.description, cur.extractedContent,
                                           knowledgeBase, cur.feedback)
                    b == buildLovableUrl(prompt)
                IN IF b.ok
                   THEN /\ sessions' = ss2
                        /\ last' = [NoStep EXCEPT !.op = "feedback", !.id = id,
                                                  !.status = 200, !.buildUrl = b.url,
                                                  !.feedback = body.feedback]
                        /\ accepted' = Put(accepted, id,
                              (IF id \in DOMAIN accepted THEN accepted[id] ELSE <<>>)
                                \o <<body.feedback>>)
                        /\ UNCHANGED <<objectPrototype, inflight, crashed, genLog>>
                   ELSE /\ RejectAfter(r, rec, ss2, objectPrototype, genLog,
                                        [NoStep EXCEPT !.feedback = body.feedback])
                        /\ UNCHANGED accepted
  /\ UNCHANGED <<knowledgeBase, nextUuid>>

\* server.js:335-347, and 190-192 for a url new URL() rejects
Evaluate(u) ==
  /\ Serving
  /\ LET r == received + 1
     IN /\ received' = r
        /\ IF ~UrlGiven(u)
           THEN /\ last' = [NoStep EXCEPT !.op = "evaluate", !.status = 400,
                                          !.error = TRUE]
                /\ UNCHANGED <<sessions, objectPrototype, inflight, crashed, genLog>>
           ELSE IF ~u.valid
           THEN /\ last' = [NoStep EXCEPT !.op = "evaluate", !.status = 200,
                                          !.score = 0,
                                          !.report = <<"Invalid URL for evaluation.">>]
                /\ UNCHANGED <<sessions, objectPrototype, inflight, crashed, genLog>>
           ELSE Suspend(r, NewRequest("evaluate", "", Undefined, Undefined, u), sessions, genLog)
  /\ UNCHANGED <<knowledgeBase, nextUuid, accepted>>

----------------------------------------------------------------------------
(* The outbound GET of a suspended handler (server.js:70-107, 162-189,       *)
(* 223-244): events of the request `req` and of its response `res`           *)

Fetching(r) == r \in DOMAIN inflight /\ ~crashed

\* req 'error': the connection failed, or the socket failed with the response
\* under way: resolve('') or the failure result
FetchError(r) ==
  /\ Fetching(r)
  /\ inflight[r].fetch \in {"connecting", "receiving"}
  /\ Resume(r, Str(<<>>), Str(<<>>), 0, <<"Failed to fetch page for evaluation.">>)
  /\ UNCHANGED <<knowledgeBase, received, nextUuid, accepted>>

\* the response callback: html = ''
FetchResponse(r) ==
  /\ Fetching(r)
  /\ inflight[r].fetch = "connecting"
  /\ inflight' = [inflight EXCEPT ![r].fetch = "receiving", ![r].len = 0]
  /\ last' = [NoStep EXCEPT !.op = "fetch", !.id = inflight[r].id]
  /\ UNCHANGED <<knowledgeBase, sessions, objectPrototype, received, nextUuid, crashed,
                 accepted, genLog>>

\* res 'data': html += chunk; past the cap, req.destroy().  With the response
\* under way, destroying the request makes res emit 'aborted' and both emit
\* 'close': req emits no 'error' and res no 'end', so neither callback that
\* resolves the promise runs again and "destroyed" is final
FetchData(r) ==
  /\ Fetching(r)
  /\ inflight[r].fetch = "receiving"
  /\ LET n == inflight[r].len + ChunkLen
     IN inflight' = [inflight EXCEPT ![r].len = n,
                       ![r].fetch = IF n > Cap(inflight[r].pc) THEN "destroyed" ELSE @]
  /\ last' = [NoStep EXCEPT !.op = "fetch", !.id = inflight[r].id]
  /\ UNCHANGED <<knowledgeBase, sessions, objectPrototype, received, nextUuid, crashed,
                 accepted, genLog>>

\* res 'end': the page is in; resolve with what was found in it
FetchEnd(r, page) ==
  /\ Fetching(r)
  /\ inflight[r].fetch = "receiving"
  /\ Resume(r, Str(page.summary), Str(page.snippets), Score(page), Report(page))
  /\ UNCHANGED <<knowledgeBase, received, nextUuid, accepted>>

----------------------------------------------------------------------------

GenerateBodies == [description : Descriptions, url : Urls, sessionId : SessionIdInputs]
FeedbackBodies == [sessionId : SessionIdInputs, feedback : Feedbacks]

Next ==
  \/ Options
  \/ GetKnowledgeBase
  \/ NotFound
  \/ \E body \in GenerateBodies : Generate(body)
  \/ \E body \in FeedbackBodies : Feedback(body)
  \/ \E u \in Urls : Evaluate(u)
  \/ \E kind \in {"generate", "feedback", "evaluate"} : NullBody(kind)
  \/ \E r \in DOMAIN inflight : FetchError(r)
  \/ \E r \in DOMAIN inflight : FetchResponse(r)
  \/ \E r \in DOMAIN inflight : FetchData(r)
  \/ \E r \in DOMAIN inflight, page \in Pages : FetchEnd(r, page)

Spec == Init /\ [][Next]_vars

----------------------------------------------------------------------------
(* The pure functions of server.js on their own: createPrompt,               *)
(* buildLovableUrl and the scoring of a fetched page.  The initial state     *)
(* holds the arguments of one call in `last`, and a step makes the call.     *)

SeqsUpTo(S, n) == UNION {[1..k -> S] : k \in 0..n}

PromptDescriptions == {Undefined, Str(<<>>), Str(<<"a">>)}
PromptContents == {Undefined, Str(<<>>), Str(<<"page">>)}
GuidelineLists == {NoArray, Arr(<<>>), Arr(<<Str(<<"g">>)>>)}
FeedbackLists ==
  {NoArray} \cup {Arr(f) : f \in SeqsUpTo({Str(<<>>), Str(<<"x">>)}, MaxFeedbackLen)}
PromptTexts == SeqsUpTo({"a", " ", "%", "HS"}, MaxTextLen)

\* what the 'end' handler of evaluateSite finds in the html: the number of
\* h1, h2 and img tags and whether a viewport meta tag is there
FetchedPages ==
  [h1 : 0..MaxTags, h2 : 0..MaxTags, img : 0..MaxTags, viewport : BOOLEAN,
   summary : {<<"page">>}, snippets : {<<"similar">>}]

\* server.js:173-185: the result evaluateSite resolves for a fetched page
evaluatePage(page) == [score |-> Score(page), report |-> Report(page)]

NoCall ==
  [op |-> "none", done |-> FALSE, description |-> Undefined,
   extractedContent |-> Undefined, feedback |-> NoArray, prompt |-> <<>>,
   page |-> [h1 |-> 0, h2 |-> 0, img |-> 0, viewport |-> FALSE,
             summary |-> <<"page">>, snippets |-> <<"similar">>],
   outPrompt |-> <<>>, outUrl |-> [ok |-> FALSE, url |-> <<>>],
   outEvaluation |-> [score |-> 0, report |-> <<>>]]

Calls ==
  {[NoCall EXCEPT !.op = "createPrompt", !.description = d,
                  !.extractedContent = e, !.feedback = f] :
     d \in PromptDescriptions, e \in PromptContents, f \in FeedbackLists}
  \cup {[NoCall EXCEPT !.op = "buildLovableUrl", !.prompt = t] : t \in PromptTexts}
  \cup {[NoCall EXCEPT !.op = "evaluateSite", !.page = p] : p \in FetchedPages}

FunctionInit ==
  /\ knowledgeBase \in GuidelineLists
  /\ sessions = [k \in {} |-> NewSession]
  /\ objectPrototype = [description |-> Undefined, extractedContent |-> Undefined]
  /\ inflight = [k \in {} |-> 0]
  /\ received = 0
  /\ nextUuid = 1
  /\ crashed = FALSE
  /\ last \in Calls
  /\ accepted = [k \in {} |-> <<>>]
  /\ genLog = [k \in {} |-> 0]

\* server.js:119-136
CallCreatePrompt ==
  /\ last.op = "createPrompt" /\ ~last.done
  /\ last' = [last EXCEPT !.done = TRUE,
                          !.outPrompt = createPrompt(last.description,
                                                     last.extractedContent,
                                                     knowledgeBase, last.feedback)]
  /\ UNCHANGED <<knowledgeBase, sessions, objectPrototype, inflight, received,
                 nextUuid, crashed, accepted, genLog>>

\* server.js:27-31
CallBuildLovableUrl ==
  /\ last.op = "buildLovableUrl" /\ ~last.done
  /\ last' = [last EXCEPT !.done = TRUE, !.outUrl = buildLovableUrl(last.prompt)]
  /\ UNCHANGED <<knowledgeBase, sessions, objectPrototype, inflight, received,
                 nextUuid, crashed, accepted, genLog>>

\* server.js:169-185
CallEvaluatePage ==
  /\ last.op = "evaluateSite" /\ ~last.done
  /\ last' = [last EXCEPT !.done = TRUE, !.outEvaluation = evaluatePage(last.page)]
  /\ UNCHANGED <<knowledgeBase, sessions, objectPrototype, inflight, received,
                 nextUuid, crashed, accepted, genLog>>

FunctionNext ==
  \/ CallCreatePrompt
  \/ CallBuildLovableUrl
  \/ CallEvaluatePage

FunctionSpec == FunctionInit /\ [][FunctionNext]_vars

----------------------------------------------------------------------------
(* Properties *)

IsPrefix(s, u) == Len(s) <= Len(u) /\ SubSeq(u, 1, Len(s)) = s
IsSuffix(s, u) == Len(s) <= Len(u) /\ SubSeq(u, Len(u) - Len(s) + 1, Len(u)) = s

\* the lines of a text: its pieces between line breaks
RECURSIVE SplitLines(_, _)
SplitLines(s, cur) ==
  IF s = <<>> THEN <<cur>>
  ELSE IF Head(s) = "\n" THEN <<cur>> \o SplitLines(Tail(s), <<>>)
  ELSE SplitLines(Tail(s), Append(cur, Head(s)))

Lines(s) == SplitLines(s, <<>>)

\* "- <string>" for each of the values, in order
BulletTexts(items) == [i \in 1..Len(items) |-> <<"-", " ">> \o ToStr(items[i])]

Occurrences(x, list) == Cardinality({i \in 1..Len(list) : list[i] = x})

AcceptedFor(id) == IF id \in DOMAIN accepted THEN accepted[id] ELSE <<>>

\* the generate requests that have not been answered
Unanswered(id) ==
  {r \in DOMAIN inflight : inflight[r].kind = "generate" /\ inflight[r].id = id}

\* the step just taken answered a feedback request with 200
FeedbackAnswered == last'.op = "feedback" /\ last'.status = 200

\* C1: a feedback request whose sessionId is absent or names no session that
\* a generate call created is answered 400 with an error field, and the
\* session store is left as it was
C1_UnknownSessionIs400 ==
  [][(last'.op = "feedback" /\ received' = received + 1 /\ last'.id \notin DOMAIN sessions)
       => (last'.status = 400 /\ last'.error /\ sessions' = sessions)]_vars

\* C2: every step leaves every session in the store, and its feedback
\* sequence before the step is a prefix of the one after it
C2_FeedbackAppendOnly ==
  [][\A id \in DOMAIN sessions :
        /\ id \in DOMAIN sessions'
        /\ IsPrefix(sessions[id].feedback, sessions'[id].feedback)]_vars

\* a generate call was answered for a session that already holds feedback
C2_Witness ==
  /\ last.op = "generate" /\ last.status = 200
  /\ last.id \in DOMAIN sessions
  /\ Len(sessions[last.id].feedback) >= 1

\* C3 as stated: the decoded prompt of a 200 feedback response ends with one
\* line "- <string>" for every feedback accepted so far, in acceptance order
C3_EveryFeedbackIsALine ==
  [][FeedbackAnswered =>
       IsSuffix(BulletTexts(accepted'[last'.id]), Lines(PromptOfUrl(last'.buildUrl)))]_vars

\* C3 as amended: the decoded prompt of a 200 feedback response ends with the
\* texts "- <string>" of the feedback accepted so far, in acceptance order,
\* each followed by a line break, less the whitespace the final trim removes
C3_FeedbackListedInOrder ==
  [][FeedbackAnswered =>
       IsSuffix(TrimEnd(BulletLines(accepted'[last'.id])),
                PromptOfUrl(last'.buildUrl))]_vars

\* a second, different feedback was answered 200 for one session
C3_Witness ==
  /\ last.op = "feedback" /\ last.status = 200
  /\ Len(AcceptedFor(last.id)) = 2
  /\ accepted[last.id][1] # accepted[last.id][2]

\* C4: a session holds as many feedback entries as feedback requests were
\* answered 200 for it, each accepted value once per accepting request
C4_NoFeedbackLostOrExtra ==
  \A id \in DOMAIN sessions :
    /\ Len(sessions[id].feedback) = Len(AcceptedFor(id))
    /\ \A f \in Feedbacks :
         Occurrences(f, sessions[id].feedback) = Occurrences(f, AcceptedFor(id))

\* C5: the prompt of every 200 response of generate or feedback is the prompt
\* builder applied to the session as stored when the response is produced
C5_PromptIsBuiltFromStore ==
  [][(last'.status = 200 /\ last'.op \in {"generate", "feedback"}) =>
       LET s == Lookup(sessions', objectPrototype', last'.id)
       IN PromptOfUrl(last'.buildUrl)
            = createPrompt(s.description, s.extractedContent, knowledgeBase, s.feedback)]_vars

\* the first request, a generate call, is answered after the second request,
\* a feedback for its session, was accepted while it was suspended
C5_Witness ==
  /\ last.op = "generate" /\ last.status = 200
  /\ received = 2
  /\ last.id \in DOMAIN genLog /\ genLog[last.id].rid = 1
  /\ Len(AcceptedFor(last.id)) = 1

\* C6: a step taken for session id A leaves every other session as it was, and
\* the prompt a generate call returns for a session of the store is made of that
\* call's own description, its own fetched content and its session's feedback
C6_NoInterference ==
  [][/\ \A other \in DOMAIN sessions :
          other # last'.id =>
            other \in DOMAIN sessions' /\ sessions'[other] = sessions[other]
     /\ (last'.op = "generate" /\ last'.status = 200 /\ last'.id \in DOMAIN sessions') =>
          PromptOfUrl(last'.buildUrl)
            = createPrompt(last'.ownDescription, Str(last'.summary), knowledgeBase,
                           Lookup(sessions', objectPrototype', last'.id).feedback)]_vars

\* C7: once every generate request for a session is answered, the session
\* holds the description and the extracted content of the generate request
\* received last for it
C7_LatestGenerateWins ==
  \A id \in DOMAIN genLog \cap DOMAIN sessions :
    Unanswered(id) = {} =>
      LET s == Lookup(sessions, objectPrototype, id)
      IN s.description = genLog[id].description
         /\ s.extractedContent = genLog[id].summary

\* C8: no handler ends in an unhandled rejection, and the process lives on
C8_NoUnhandledRejection ==
  ~crashed /\ \A r \in DOMAIN inflight : inflight[r].pc # "rejected"

\* C9: extractContentFromUrl is not left pending by a transfer destroyed past
\* the size cap: by then it has resolved and the generate handler has moved on
C9_ExtractResolvesAfterAbort ==
  \A r \in DOMAIN inflight :
    inflight[r].pc = "extract" => inflight[r].fetch # "destroyed"

\* C10: evaluateSite is not left pending by a transfer destroyed past the size
\* cap: by then it has resolved and the evaluate request is answered
C10_EvaluateResolvesAfterAbort ==
  \A r \in DOMAIN inflight :
    inflight[r].pc = "evaluate" => inflight[r].fetch # "destroyed"

\* s holds the text sub somewhere
Contains(sub, s) ==
  \E i \in 0..(Len(s) - Len(sub)) : SubSeq(s, i + 1, i + Len(sub)) = sub

\* the call of createPrompt held in `last` has returned
PromptBuilt == last.op = "createPrompt" /\ last.done

\* C11: the prompt holds each of the four section headers exactly when the
\* source of the section (description, extracted content, guideline list,
\* feedback sequence) is non-empty, and is the empty string when all four are
\* empty or absent
C11_SectionIffSourceNonEmpty ==
  PromptBuilt =>
    LET hasDescription == Truthy(last.description)
        hasContent == Truthy(last.extractedContent)
        hasGuidelines == knowledgeBase.t = "array" /\ knowledgeBase.a # <<>>
        hasFeedback == last.feedback.t = "array" /\ last.feedback.a # <<>>
    IN /\ Contains(Trim(UserDescriptionHdr), last.outPrompt) <=> hasDescription
       /\ Contains(Trim(ContentHdr), last.outPrompt) <=> hasContent
       /\ Contains(Trim(GuidelinesHdr), last.outPrompt) <=> hasGuidelines
       /\ Contains(Trim(FeedbackHdr), last.outPrompt) <=> hasFeedback
       /\ (~hasDescription /\ ~hasContent /\ ~hasGuidelines /\ ~hasFeedback)
            => last.outPrompt = <<>>

\* the number of lines of a text that start with `start`
LinesStarting(start, text) ==
  Cardinality({i \in 1..Len(Lines(text)) : IsPrefix(start, Lines(text)[i])})

\* the prompt createPrompt gives for the session id of the store ss
PromptOfSession(ss, proto, id) ==
  LET s == Lookup(ss, proto, id)
  IN createPrompt(s.description, s.extractedContent, knowledgeBase, s.feedback)

\* the step just taken is a feedback request with the empty string for a
\* session of the store
EmptyFeedbackGiven ==
  /\ last'.op = "feedback" /\ last'.feedback = Str(<<>>)
  /\ last'.id \in DOMAIN sessions

\* C12 as stated: an empty feedback for an existing session makes the feedback
\* sequence one longer, and the rebuilt prompt has one more line starting with
\* "- " than the prompt of the session before the call
C12_EmptyFeedbackAddsDashSpaceLine ==
  [][EmptyFeedbackGiven =>
       /\ Len(sessions'[last'.id].feedback) = Len(sessions[last'.id].feedback) + 1
       /\ LinesStarting(<<"-", " ">>, PromptOfSession(sessions', objectPrototype', last'.id))
            = LinesStarting(<<"-", " ">>, PromptOfSession(sessions, objectPrototype, last'.id)) + 1]_vars

\* C12 as amended: an empty feedback for an existing session makes the feedback
\* sequence one longer, and the rebuilt prompt has one more line starting with
\* "-" than the prompt of the session before the call: its new last line "-"
C12_EmptyFeedbackAddsDashLine ==
  [][EmptyFeedbackGiven =>
       LET after == PromptOfSession(sessions', objectPrototype', last'.id)
           before == PromptOfSession(sessions, objectPrototype, last'.id)
       IN /\ Len(sessions'[last'.id].feedback) = Len(sessions[last'.id].feedback) + 1
          /\ LinesStarting(<<"-">>, after) = LinesStarting(<<"-">>, before) + 1
          /\ Lines(after)[Len(Lines(after))] = <<"-">>]_vars

\* an empty feedback was answered 200 for a session that already held feedback
C12_Witness ==
  /\ last.op = "feedback" /\ last.status = 200 /\ last.feedback = Str(<<>>)
  /\ last.id \in DOMAIN sessions
  /\ Len(sessions[last.id].feedback) >= 2

\* the scoring of the page held in `last` has returned
PageEvaluated == last.op = "evaluateSite" /\ last.done

\* C13: markup with at least one h1 tag, at least two h2 tags, at least one
\* img tag and a viewport meta tag gets score 100 and an empty report
C13_FullMarkupScores100 ==
  (/\ PageEvaluated
   /\ last.page.h1 >= 1 /\ last.page.h2 >= 2 /\ last.page.img >= 1
   /\ last.page.viewport)
    => last.outEvaluation = [score |-> 100, report |-> <<>>]

\* the call of buildLovableUrl held in `last` has returned or thrown
UrlBuilt == last.op = "buildLovableUrl" /\ last.done

\* C14: for every prompt, unpaired surrogates included, buildLovableUrl
\* returns without throwing a URL that starts with the base endpoint and whose
\* decoded prompt parameter is the prompt
C14_BuildUrlTotalRoundTrip ==
  UrlBuilt =>
    /\ last.outUrl.ok
    /\ IsPrefix(baseUrl, last.outUrl.url)
    /\ PromptOfUrl(last.outUrl.url) = last.prompt

\* the four checks of the evaluator in their order: whether the page passes,
\* the points it earns and the suggestion it triggers
Checks(page) ==
  << [passed |-> page.h1 >= 1, points |-> H1Points,
      suggestion |-> "Add at least one main heading."],
     [passed |-> page.h2 >= 2, points |-> H2Points,
      suggestion |-> "Use subheadings to structure content."],
     [passed |-> page.img >= 1, points |-> ImgPoints,
      suggestion |-> "Include images to make the page visually engaging."],
     [passed |-> page.viewport, points |-> ViewportPoints,
      suggestion |-> "Ensure the page is mobile-friendly (missing viewport meta tag)."] >>

CheckFailed(c) == ~c.passed

RECURSIVE PointsOfPassed(_)
PointsOfPassed(checks) ==
  IF checks = <<>> THEN 0
  ELSE (IF Head(checks).passed THEN Head(checks).points ELSE 0)
       + PointsOfPassed(Tail(checks))

\* the suggestions of the checks, one per line
RECURSIVE SuggestionLines(_)
SuggestionLines(checks) ==
  IF checks = <<>> THEN <<>>
  ELSE IF Len(checks) = 1 THEN <<Head(checks).suggestion>>
  ELSE <<Head(checks).suggestion, "\n">> \o SuggestionLines(Tail(checks))

\* C15: the report of a fetched page is the suggestions of the failed checks
\* in the order h1, h2, img, viewport, and its score the sum of the points of
\* the passed checks: score 0 and all four suggestions for a page with none of
\* the signals, and an empty report exactly when all four checks pass
C15_ReportAndScoreFollowChecks ==
  PageEvaluated =>
    LET checks == Checks(last.page)
        failed == SelectSeq(checks, CheckFailed)
    IN /\ last.outEvaluation.report = SuggestionLines(failed)
       /\ last.outEvaluation.score = PointsOfPassed(checks)
       /\ Len(failed) = 4 =>
            /\ last.outEvaluation.score = 0
            /\ last.outEvaluation.report = SuggestionLines(checks)
       /\ last.outEvaluation.report = <<>> <=> failed = <<>>

\* a page with no h1, no h2, no img and no viewport meta tag was scored
C15_Witness ==
  /\ PageEvaluated
  /\ last.page.h1 = 0 /\ last.page.h2 = 0 /\ last.page.img = 0 /\ ~last.page.viewport
  /\ Len(Lines(last.outEvaluation.report)) = 4

\* C16: the GET of the content extractor and of the site evaluator goes to the
\* host and the path of the URL the handler was given (the one URL of Urls
\* that `new URL` accepts)
C16_FetchTargetsGivenPath ==
  \A r \in DOMAIN inflight :
    inflight[r].pc \in {"extract", "evaluate"} =>
      \E u \in Urls :
        /\ u.valid
        /\ inflight[r].target = [hostname |-> u.hostname, path |-> u.pathname]

\* the step just taken answered a generate request with 200
GenerateAnswered == last'.op = "generate" /\ last'.status = 200

\* the generate handlers suspended on a fetch, after the step
SuspendedGenerates ==
  {r \in DOMAIN inflight' :
     inflight'[r].kind = "generate" /\ inflight'[r].pc \in {"extract", "similar"}}

\* C17: the prompt of a 200 generate response lists every feedback accepted
\* for its session up to then, in order, those accepted while the request was
\* suspended included; and sessions[id] of a suspended generate request exists
C17_GenerateKeepsFeedback ==
  [][/\ GenerateAnswered =>
          LET fb == IF last'.id \in DOMAIN accepted' THEN accepted'[last'.id] ELSE <<>>
          IN fb # <<>> =>
               IsSuffix(Trim(FeedbackHdr \o BulletLines(fb)),
                        PromptOfUrl(last'.buildUrl))
     /\ \A r \in SuspendedGenerates :
          Lookup(sessions', objectPrototype', inflight'[r].id).t = "object"]_vars

\* the first request, a generate call, is answered after two feedback requests
\* for its session were accepted while it was suspended
C17_Witness ==
  /\ last.op = "generate" /\ last.status = 200
  /\ received = 3
  /\ last.id \in DOMAIN genLog /\ genLog[last.id].rid = 1
  /\ Len(AcceptedFor(last.id)) = 2
  /\ Contains(BulletLine(accepted[last.id][1]), PromptOfUrl(last.buildUrl))

\* the description and the extracted content a session holds
StoredPair(ss, id) == <<ss[id].description, ss[id].extractedContent>>

\* C18: a session starts with the empty description and content, and a step
\* that changes either of them is the finish of one generate request for the
\* session and stores that request's description with that request's combined
\* extracted content
C18_PairFromOneGenerate ==
  [][\A id \in DOMAIN sessions' :
        IF id \notin DOMAIN sessions
        THEN \/ StoredPair(sessions', id) = <<Str(<<>>), Str(<<>>)>>
             \/ /\ last'.op = "generate" /\ last'.id = id
                /\ StoredPair(sessions', id) = <<last'.description, Str(last'.summary)>>
        ELSE StoredPair(sessions', id) # StoredPair(sessions, id) =>
               /\ last'.op = "generate" /\ last'.id = id
               /\ last'.status = 200 \/ last'.threw
               /\ StoredPair(sessions', id) = <<last'.description, Str(last'.summary)>>]_vars

\* a generate request was answered and stored its description and content
\* while another generate request for the same session is still suspended
C18_Witness ==
  /\ last.op = "generate" /\ last.status = 200
  /\ last.id \in DOMAIN sessions
  /\ Unanswered(last.id) # {}
  /\ Truthy(sessions[last.id].description)
  /\ Truthy(sessions[last.id].extractedContent)
  /\ StoredPair(sessions, last.id) = <<last.description, Str(last.summary)>>

\* C19: a feedback step keeps every description and extracted content and at
\* most appends its feedback to its session; a generate step keeps every
\* feedback sequence; every other step keeps the whole store
C19_HandlersKeepToTheirFields ==
  [][/\ last'.op = "feedback" =>
          /\ DOMAIN sessions' = DOMAIN sessions
          /\ objectPrototype' = objectPrototype
          /\ \A id \in DOMAIN sessions :
               /\ StoredPair(sessions', id) = StoredPair(sessions, id)
               /\ \/ sessions'[id].feedback = sessions[id].feedback
                     /\ ~(id = last'.id /\ last'.status = 200)
                  \/ /\ id = last'.id
                     /\ sessions'[id].feedback
                          = Append(sessions[id].feedback, last'.feedback)
     /\ last'.op = "generate" =>
          /\ \A id \in DOMAIN sessions :
               id \in DOMAIN sessions'
                 /\ sessions'[id].feedback = sessions[id].feedback
          /\ \A id \in DOMAIN sessions' \ DOMAIN sessions :
               sessions'[id].feedback = <<>>
     /\ last'.op \in {"evaluate", "knowledge-base", "options", "not-found", "fetch"} =>
          sessions' = sessions /\ objectPrototype' = objectPrototype]_vars

\* a feedback was answered 200 for a session that holds a description and
\* extracted content
C19_Witness ==
  /\ last.op = "feedback" /\ last.status = 200
  /\ last.id \in DOMAIN sessions
  /\ Truthy(sessions[last.id].description)
  /\ Truthy(sessions[last.id].extractedContent)
  /\ sessions[last.id].feedback # <<>>

====
